---- MODULE Spec2Model ----
(***************************************************************************)
(* Model of src/buildvsbuy/index.ts: the build-vs-buy cost calculator and  *)
(* the FAQ search widget (highlight engine, search controller, debounce).  *)
(*                                                                         *)
(* Strings are sequences of one-character strings.  A DOM child list is a  *)
(* sequence of nodes; a node is a text node, a <mark> inserted by the      *)
(* highlight engine, or an inline element holding its own child list.      *)
(***************************************************************************)
EXTENDS Integers, Sequences, FiniteSets, TLC

VARIABLES
    hlContainer,  \* child list of the container under highlight / clear
    hlOriginal,   \* the child list the container was loaded with
    hlQuery,      \* query of the latest highlightMatchesInElement call
    hlPhase,      \* "fresh" | "marked" | "cleared"
    hlCycles      \* number of highlight calls made so far

hlVars == <<hlContainer, hlOriginal, hlQuery, hlPhase, hlCycles>>

VARIABLES
    calcPresent,  \* which of the five calculator inputs the page holds
    calcRaw,      \* el.value of the four numeric inputs
    calcChecked,  \* el.checked of the auth checkbox
    calcState,    \* the CalculatorState of the latest recalcAndRender
    calcCosts,    \* the CostBreakdown rendered by the latest recalcAndRender
    calcRows      \* the build / SaaS rows the latest render left visible

calcVars == <<calcPresent, calcRaw, calcChecked, calcState, calcCosts, calcRows>>

VARIABLES
    faqPage,            \* collectFaqItems: title and answer child lists as loaded
    faqTitle,           \* child list of each item's question title, now
    faqAnswer,          \* child list of each item's answer, now
    faqOpen,            \* isFaqItemOpen of each item
    openedAttr,         \* item carries data-opened-by-search = 'true'
    searchOpenedItems,  \* the module's Set of items
    inputValue,         \* input.value of each [faq-search] input
    timeoutId,          \* debounce closure: id of the latest timer, 0 = undefined
    timers,             \* window timers pending for each input: [id, left]
    burst,              \* input events since the input's last search: 0, 1, .. MaxBurst (or more)
    idle,               \* ms since the input's latest input event, while one awaits its search
    userClicked,        \* items whose question header the user has clicked
    clickedOutside,     \* those clicked while the item was not in searchOpenedItems
    openedBy,           \* who made the click that left the item open
    last                \* what the latest search execution read and did

faqVars ==
    <<faqPage, faqTitle, faqAnswer, faqOpen, openedAttr, searchOpenedItems, inputValue,
      timeoutId, timers, burst, idle, userClicked, clickedOutside, openedBy, last>>

VARIABLES
    assessmentAnswers,  \* the module's answers to question1..question5: "null" | "yes" | "no"
    dataSelected,       \* data-selected of each .bvb-step: "none" | "yes" | "no"
    infoDisplay,        \* style.display of the [assessment-info] container
    infoText            \* textContent of its [assessment-text] element

asmtVars == <<assessmentAnswers, dataSelected, infoDisplay, infoText>>

vars == <<hlVars, calcVars, faqVars, asmtVars>>

(***************************************************************************)
(* Bounds of the model.                                                    *)
(***************************************************************************)
MaxTextLen == 3    \* characters in the text of one container
MaxQueryLen == 2   \* characters in a typed query
MaxCycles == 2     \* highlight/clear cycles on one container
TickMs == 100      \* granularity of the clock, in ms
MaxBurst == 2      \* input events counted in one burst; longer bursts count as this

Min(S) == CHOOSE x \in S : \A y \in S : x <= y

(***************************************************************************)
(* Text.                                                                   *)
(***************************************************************************)
Chars == {"a", "b", "A", " "}

Strings(n) == UNION {[1..k -> Chars] : k \in 0..n}

IsSpace(c) == c = " "

\* String.prototype.toLowerCase on one character of the alphabet
LowerChar(c) == CASE c = "A" -> "a" [] c = "B" -> "b" [] OTHER -> c

ToLower(s) == [i \in 1..Len(s) |-> LowerChar(s[i])]

\* String.prototype.trim
RECURSIVE Trim(_)
Trim(s) ==
    IF s = <<>> THEN <<>>
    ELSE IF IsSpace(Head(s)) THEN Trim(Tail(s))
    ELSE IF IsSpace(s[Len(s)]) THEN Trim(SubSeq(s, 1, Len(s) - 1))
    ELSE s

\* value.trim() of onSearch
TrimOnly(s) == Trim(s)

normalizeText(text) == Trim(ToLower(text))

\* String.prototype.slice(a, b), 0-based, both ends clamped
Slice(s, a, b) ==
    LET lo == IF a > Len(s) THEN Len(s) ELSE a
        hi == IF b > Len(s) THEN Len(s) ELSE b
    IN  IF lo >= hi THEN <<>> ELSE SubSeq(s, lo + 1, hi)

\* String.prototype.indexOf(q, pos), 0-based, -1 when absent
IndexOf(s, q, pos) ==
    LET p == IF pos > Len(s) THEN Len(s) ELSE pos
        hits == {i \in p..(Len(s) - Len(q)) : SubSeq(s, i + 1, i + Len(q)) = q}
    IN  IF hits = {} THEN -1 ELSE Min(hits)

\* String.prototype.includes(q)
Includes(s, q) == IndexOf(s, q, 0) # -1

(***************************************************************************)
(* DOM nodes.                                                              *)
(***************************************************************************)
TextNode(s) == [kind |-> "text", text |-> s, kids |-> <<>>]
MarkNode(s) == [kind |-> "mark", text |-> s, kids |-> <<>>]
ElemNode(ks) == [kind |-> "elem", text |-> <<>>, kids |-> ks]

\* Node.textContent of a child list
RECURSIVE textContent(_)
textContent(kids) ==
    IF kids = <<>> THEN <<>>
    ELSE LET n == Head(kids)
         IN  (IF n.kind = "elem" THEN textContent(n.kids) ELSE n.text)
             \o textContent(Tail(kids))

\* the <mark class="faq-search-highlight"> elements under a child list, in
\* document order (querySelectorAll)
RECURSIVE Marks(_)
Marks(kids) ==
    IF kids = <<>> THEN <<>>
    ELSE LET n == Head(kids)
         IN  (CASE n.kind = "mark" -> <<n>>
                [] n.kind = "elem" -> Marks(n.kids)
                [] OTHER -> <<>>)
             \o Marks(Tail(kids))

\* the text nodes under a child list, in document order
RECURSIVE TextNodes(_)
TextNodes(kids) ==
    IF kids = <<>> THEN <<>>
    ELSE LET n == Head(kids)
         IN  (CASE n.kind = "text" -> <<n.text>>
                [] n.kind = "elem" -> TextNodes(n.kids)
                [] OTHER -> <<>>)
             \o TextNodes(Tail(kids))

HasDirectMark(kids) == \E i \in 1..Len(kids) : kids[i].kind = "mark"

(***************************************************************************)
(* Highlight engine.                                                       *)
(***************************************************************************)
\* the while (true) scan of one text node: the fragment that replaces it
RECURSIVE ScanLoop(_, _, _, _)
ScanLoop(original, lower, q, pos) ==
    LET idx == IndexOf(lower, q, pos)
    IN  IF idx = -1
        THEN <<TextNode(Slice(original, pos, Len(original)))>>
        ELSE (IF idx > pos THEN <<TextNode(Slice(original, pos, idx))>> ELSE <<>>)
             \o <<MarkNode(Slice(original, idx, idx + Len(q)))>>
             \o ScanLoop(original, lower, q, idx + Len(q))

\* mutant: the fragments are sliced from the normalized text
HighlightTextNodeOfLower(original, q) ==
    ScanLoop(normalizeText(original), normalizeText(original), q, 0)

\* the fragment built for one accepted text node
HighlightTextNode(original, q) == ScanLoop(original, normalizeText(original), q, 0)

\* the TreeWalker filter
AcceptNode(text, q) == Includes(normalizeText(text), q)

\* replaceChild(frag, textNode) for every accepted text node of a child list
RECURSIVE HighlightKids(_, _)
HighlightKids(kids, q) ==
    IF kids = <<>> THEN <<>>
    ELSE LET n == Head(kids)
         IN  (CASE n.kind = "text" ->
                     IF AcceptNode(n.text, q) THEN HighlightTextNode(n.text, q)
                     ELSE <<n>>
                [] n.kind = "elem" -> <<ElemNode(HighlightKids(n.kids, q))>>
                [] OTHER -> <<n>>)
             \o HighlightKids(Tail(kids), q)

\* the scan loops one highlightMatchesInElement call runs: the normalized text
\* of each accepted text node, and the query scanned for
Scans(container, query) ==
    IF query = <<>> THEN {}
    ELSE {[lower |-> normalizeText(TextNodes(container)[k]), q |-> normalizeText(query)] :
            k \in {j \in 1..Len(TextNodes(container)) :
                      AcceptNode(TextNodes(container)[j], normalizeText(query))}}

highlightMatchesInElement(container, query) ==
    IF query = <<>> THEN container
    ELSE HighlightKids(container, normalizeText(query))

\* replaceChild(createTextNode(mark.textContent), mark), marks of this list only
ReplaceMarks(kids) ==
    [i \in 1..Len(kids) |->
        IF kids[i].kind = "mark" THEN TextNode(kids[i].text) ELSE kids[i]]

\* the same, through the inline elements too
ReplaceMarksDeep(kids) ==
    [i \in 1..Len(kids) |->
        CASE kids[i].kind = "mark" -> TextNode(kids[i].text)
          [] kids[i].kind = "elem" -> ElemNode(ReplaceMarks(kids[i].kids))
          [] OTHER -> kids[i]]

\* Node.normalize: empty text nodes go, adjacent text nodes merge, subtree-wide
RECURSIVE Normalize(_)
Normalize(kids) ==
    IF kids = <<>> THEN <<>>
    ELSE LET n == Head(kids)
             rest == Normalize(Tail(kids))
         IN  CASE n.kind = "elem" -> <<ElemNode(Normalize(n.kids))>> \o rest
               [] n.kind = "mark" -> <<n>> \o rest
               [] OTHER ->
                    IF n.text = <<>> THEN rest
                    ELSE IF rest # <<>> /\ rest[1].kind = "text"
                         THEN <<TextNode(n.text \o rest[1].text)>> \o Tail(rest)
                         ELSE <<n>> \o rest

\* every mark is replaced by its text and its parent is normalized; a parent
\* that holds no mark is not touched
clearHighlights(container) ==
    IF HasDirectMark(container) THEN Normalize(ReplaceMarksDeep(container))
    ELSE [i \in 1..Len(container) |->
            IF container[i].kind = "elem" /\ HasDirectMark(container[i].kids)
            THEN ElemNode(Normalize(ReplaceMarks(container[i].kids)))
            ELSE container[i]]

\* the highlight-engine variables while another widget is under check
HLIdle ==
    /\ hlContainer = <<>>
    /\ hlOriginal = <<>>
    /\ hlQuery = <<>>
    /\ hlPhase = "fresh"
    /\ hlCycles = 0

\* the FAQ variables while another widget is under check
\* the record of the latest handler: which one ran ("none" | "click" | "empty" |
\* "query"), the item clicked or the input searched, what the search read (the
\* input's value and idle time, the state it started from) and what it did
NoRun ==
    [kind |-> "none", item |-> 0, input |-> 0, value |-> <<>>, idle |-> 0, burst |-> 0,
     first |-> 0,
     anchorMark |-> FALSE, clicks |-> <<>>, prevOpen |-> <<>>, prevAttr |-> <<>>,
     prevBy |-> <<>>, prevSet |-> {}, prevOutside |-> {}, prevMarked |-> FALSE,
     hlCalls |-> {}, scans |-> {}]

FaqIdle ==
    /\ faqPage = <<>>
    /\ faqTitle = <<>>
    /\ faqAnswer = <<>>
    /\ faqOpen = <<>>
    /\ openedAttr = <<>>
    /\ searchOpenedItems = {}
    /\ inputValue = <<>>
    /\ timeoutId = <<>>
    /\ timers = <<>>
    /\ burst = <<>>
    /\ idle = <<>>
    /\ userClicked = {}
    /\ clickedOutside = {}
    /\ openedBy = <<>>
    /\ last = NoRun

\* the assessment variables while another widget is under check: no answer
\* given, and a page without assessment steps or recommendation panel
Questions == 1..5

AsmtIdle ==
    /\ assessmentAnswers = [k \in Questions |-> "null"]
    /\ dataSelected = <<>>
    /\ infoDisplay = "none"
    /\ infoText = ""

(***************************************************************************)
(* Cost calculator.                                                        *)
(***************************************************************************)
NumericInputs == {"engineers", "salary", "volume", "timeline"}

Digits == <<"0", "1", "2", "3", "4", "5", "6", "7", "8", "9">>

IsDigit(c) == \E d \in 1..10 : Digits[d] = c

DigitValue(c) == (CHOOSE d \in 1..10 : Digits[d] = c) - 1

RECURSIVE DigitsValue(_)
DigitsValue(s) ==
    IF s = <<>> THEN 0 ELSE 10 * DigitsValue(SubSeq(s, 1, Len(s) - 1)) + DigitValue(s[Len(s)])

\* Number(el.value) on the values the model types: "" is 0, an optionally
\* signed run of digits is its value, anything else is NaN
NaN == [finite |-> FALSE, n |-> 0]
Finite(n) == [finite |-> TRUE, n |-> n]

Number(s) ==
    LET t == Trim(s)
        body == IF t # <<>> /\ t[1] = "-" THEN Tail(t) ELSE t
    IN  IF t = <<>> THEN Finite(0)
        ELSE IF body # <<>> /\ \A i \in 1..Len(body) : IsDigit(body[i])
             THEN Finite(IF t[1] = "-" THEN 0 - DigitsValue(body) ELSE DigitsValue(body))
             ELSE NaN

queryNumberInput(present, raw, name, fallback) ==
    IF name \notin present THEN fallback
    ELSE LET value == Number(raw[name])
         IN  IF value.finite THEN value.n ELSE fallback

queryBooleanInput(present, checked, fallback) ==
    IF "auth" \notin present THEN fallback ELSE checked

readState(present, raw, checked) ==
    [engineers |-> queryNumberInput(present, raw, "engineers", 3),
     salary |-> queryNumberInput(present, raw, "salary", 150000),
     users |-> queryNumberInput(present, raw, "volume", 10000),
     timeline |-> queryNumberInput(present, raw, "timeline", 3),
     hasExistingAuth |-> queryBooleanInput(present, checked, FALSE)]

\* Math.round(num / den) for den > 0: halves round up
Round(num, den) == (2 * num + den) \div (2 * den)

buildTransitionOneTime == 50000

\* engineers * (salary * 1.5) * 0.5
buildInitialDevelopment(state) == Round(state.engineers * state.salary * 3, 4)

\* (timeline * 78 * (salary * 1.5)) / 2080
buildOngoingMaintenance(state) == Round(state.timeline * 78 * state.salary * 3, 2 * 2080)

buildSecurityAndCompliance(state) == Round(state.timeline * 80000, 1)

buildOpportunityCost(state) == Round(state.timeline * 6120, 1)

buildMaintenanceExisting(state) == 85000 * state.timeline

\* mutant: the existing-auth branch is not taken
buildTotalNoBranch(state) ==
    buildInitialDevelopment(state) + buildOngoingMaintenance(state)
    + buildSecurityAndCompliance(state) + buildOpportunityCost(state)

buildTotal(state) ==
    IF state.hasExistingAuth
    THEN buildTransitionOneTime + buildMaintenanceExisting(state)
    ELSE buildInitialDevelopment(state) + buildOngoingMaintenance(state)
         + buildSecurityAndCompliance(state) + buildOpportunityCost(state)

saasMigrationCost(state) == IF state.hasExistingAuth THEN 100000 ELSE 0

\* users * 0.05 * 12 * timeline
saasUserLicensing(state) == Round(state.users * 5 * 12 * state.timeline, 100)

\* engineers * (salary * 1.5) * 0.25
saasIntegrationWorkBase(state) == Round(state.engineers * state.salary * 3, 8)

saasIntegrationWork(state) == saasIntegrationWorkBase(state) + saasMigrationCost(state)

\* (timeline * 104 * (salary * 1.5)) / 2080
saasOngoingSupport(state) == Round(state.timeline * 104 * state.salary * 3, 2 * 2080)

\* mutant: the total is summed from the integration base, without the migration fee
saasTotalFromBase(state) ==
    saasUserLicensing(state) + saasIntegrationWorkBase(state) + saasOngoingSupport(state)

saasTotal(state) ==
    saasUserLicensing(state) + saasIntegrationWork(state) + saasOngoingSupport(state)

\* users * 0.024 * 12 * timeline
fusLicensing(state) == Round(state.users * 24 * 12 * state.timeline, 1000)

\* engineers * (salary * 1.5) * 0.04
fusIntegration(state) == Round(state.engineers * state.salary * 3 * 4, 2 * 100)

\* (timeline * 26 * (salary * 1.5)) / 2080
fusMaintenance(state) == Round(state.timeline * 26 * state.salary * 3, 2 * 2080)

fusTotal(state) == fusLicensing(state) + fusIntegration(state) + fusMaintenance(state)

buildBreakdown(state) ==
    [total |-> buildTotal(state),
     initialDevelopment |->
        IF state.hasExistingAuth THEN buildTransitionOneTime
        ELSE buildInitialDevelopment(state),
     ongoingMaintenance |->
        IF state.hasExistingAuth THEN buildMaintenanceExisting(state)
        ELSE buildOngoingMaintenance(state),
     securityAndCompliance |->
        IF state.hasExistingAuth THEN 0 ELSE buildSecurityAndCompliance(state),
     opportunityCost |-> IF state.hasExistingAuth THEN 0 ELSE buildOpportunityCost(state),
     oneTimeTransition |-> IF state.hasExistingAuth THEN buildTransitionOneTime ELSE 0]

calculateCosts(state) ==
    [build |-> buildBreakdown(state),
     saas |->
        [total |-> saasTotal(state),
         userLicensing |-> saasUserLicensing(state),
         integrationWork |-> saasIntegrationWork(state),
         ongoingSupport |-> saasOngoingSupport(state),
         migrationCost |-> saasMigrationCost(state)],
     fusionauth |->
        [total |-> fusTotal(state),
         licensing |-> fusLicensing(state),
         integration |-> fusIntegration(state),
         maintenance |-> fusMaintenance(state)],
     savingsVsBuild |-> buildTotal(state) - fusTotal(state)]

\* the rows updateAttributes leaves visible
visibleRows(state) ==
    IF state.hasExistingAuth
    THEN {"one-time-transition", "ongoing-maintenance", "migration-cost"}
    ELSE {"ongoing-maintenance", "initial-development", "security-and-compliance",
          "opportunity-cost"}

\* values the sliders and the page markup hand to the calculator
RawValues ==
    [engineers |-> {<<"1">>, <<"3">>, <<"x">>},
     salary |-> {<<"1", "5", "0", "0", "0", "0">>, <<"9", "9", "9", "9", "9">>, <<>>},
     volume |-> {<<"1", "0", "0", "0", "0">>, <<"7">>, <<"-", "5">>},
     timeline |-> {<<"1">>, <<"3">>, <<" ", "4">>}]

\* the values the page is loaded with
MarkupValues ==
    [engineers |-> <<"3">>,
     salary |-> <<"1", "5", "0", "0", "0", "0">>,
     volume |-> <<"1", "0", "0", "0", "0">>,
     timeline |-> <<"3">>]

CalcIdle ==
    /\ calcPresent = {}
    /\ calcRaw = [n \in NumericInputs |-> <<>>]
    /\ calcChecked = FALSE
    /\ calcState = readState(calcPresent, calcRaw, calcChecked)
    /\ calcCosts = calculateCosts(calcState)
    /\ calcRows = visibleRows(calcState)

\* ready(): attachListeners, then the first recalcAndRender
InitCalc ==
    /\ HLIdle
    /\ FaqIdle
    /\ AsmtIdle
    /\ calcPresent \in {NumericInputs \cup {"auth"}, NumericInputs, {"engineers", "auth"}}
    /\ calcRaw = MarkupValues
    /\ calcChecked = FALSE
    /\ calcState = readState(calcPresent, calcRaw, calcChecked)
    /\ calcCosts = calculateCosts(calcState)
    /\ calcRows = visibleRows(calcState)

recalcAndRender(present, raw, checked) ==
    LET state == readState(present, raw, checked)
    IN  /\ calcState' = state
        /\ calcCosts' = calculateCosts(state)
        /\ calcRows' = visibleRows(state)

\* 'input' on one of the four numeric inputs
NumberInput(name, v) ==
    /\ name \in calcPresent
    /\ calcRaw' = [calcRaw EXCEPT ![name] = v]
    /\ recalcAndRender(calcPresent, calcRaw', calcChecked)
    /\ UNCHANGED <<calcPresent, calcChecked, hlVars, faqVars, asmtVars>>

\* 'change' on the auth checkbox
AuthChange ==
    /\ "auth" \in calcPresent
    /\ calcChecked' = ~calcChecked
    /\ recalcAndRender(calcPresent, calcRaw, calcChecked')
    /\ UNCHANGED <<calcPresent, calcRaw, hlVars, faqVars, asmtVars>>

NextCalc ==
    \/ \E name \in NumericInputs : \E v \in RawValues[name] : NumberInput(name, v)
    \/ AuthChange

SpecCalc == InitCalc /\ [][NextCalc]_vars

(***************************************************************************)
(* FAQ search: items, debounce, search controller.                         *)
(***************************************************************************)
Str1(a) == <<a>>
Str2(a, b) == <<a, b>>

\* pages following the structural convention: every item has its question
\* wrapper, its h3 title and its rich-text answer; accordions load collapsed
Pages ==
    { << [title |-> <<TextNode(<<"A", "b">>)>>,
          answer |-> <<TextNode(<<" ", "a", "b", " ", "a">>)>>],
         [title |-> <<TextNode(<<"b", "a">>)>>,
          answer |-> <<TextNode(<<"b">>), ElemNode(<<TextNode(<<"a">>)>>)>>] >>,
      << [title |-> <<TextNode(<<"b">>)>>,
          answer |-> <<TextNode(<<"b", " ">>)>>],
         [title |-> <<TextNode(<<"a">>), ElemNode(<<TextNode(<<"b">>)>>)>>,
          answer |-> <<TextNode(<<" ", "a", "A">>)>>] >>,
      << [title |-> <<TextNode(<<"b">>)>>,
          answer |-> <<TextNode(<<"b", "b">>)>>],
         [title |-> <<TextNode(<<"a">>)>>,
          answer |-> <<TextNode(<<"b">>), ElemNode(<<TextNode(<<"a">>)>>)>>],
         [title |-> <<TextNode(<<"b", "A">>)>>,
          answer |-> <<TextNode(<<"a", " ", "b">>)>>] >> }

\* a page of one item, for the runs with two search inputs
ShortPage == << [title |-> <<TextNode(Str1("a"))>>, answer |-> <<TextNode(Str1("b"))>>] >>

\* the [faq-search] inputs of the page
SearchInputs == DOMAIN inputValue

\* what the user types into each input: the full range of queries on a page
\* with one input, a shorter range on the page with two
InputValues ==
    IF Len(inputValue) = 1
    THEN << {<<>>, Str1(" "), Str1("a"), <<"A", "B", " ">>, Str2("b", "a")} >>
    ELSE << {<<>>, Str1("a"), <<"A", "B", " ">>}, {<<>>, Str1("b")} >>

Delay == 200

Items == 1..Len(faqPage)

\* init(): collectFaqItems, ensureClickTagging, attachSearchHandlerToInput
InitFaq(pages, inputs) ==
    /\ HLIdle
    /\ CalcIdle
    /\ AsmtIdle
    /\ faqPage \in pages
    /\ faqTitle = [i \in 1..Len(faqPage) |-> faqPage[i].title]
    /\ faqAnswer = [i \in 1..Len(faqPage) |-> faqPage[i].answer]
    /\ faqOpen = [i \in 1..Len(faqPage) |-> FALSE]
    /\ openedAttr = [i \in 1..Len(faqPage) |-> FALSE]
    /\ searchOpenedItems = {}
    /\ inputValue = [inp \in inputs |-> <<>>]
    /\ timeoutId = [inp \in inputs |-> 0]
    /\ timers = [inp \in inputs |-> {}]
    /\ burst = [inp \in inputs |-> 0]
    /\ idle = [inp \in inputs |-> 0]
    /\ userClicked = {}
    /\ clickedOutside = {}
    /\ openedBy = [i \in 1..Len(faqPage) |-> "none"]
    /\ last = NoRun

\* a page with one search input, or the short page with two
Init == InitFaq(Pages, {1}) \/ InitFaq({ShortPage}, {1, 2})

\* the short page with two search inputs
InitTwoInputs == InitFaq({ShortPage}, {1, 2})

\* the DOM and module state a handler works on
World ==
    [title |-> faqTitle, answer |-> faqAnswer, open |-> faqOpen, attr |-> openedAttr,
     set |-> searchOpenedItems, openedBy |-> openedBy,
     clicks |-> [i \in Items |-> 0], first |-> 0, anchorMark |-> FALSE,
     hlCalls |-> {}, scans |-> {}]

\* item.querySelectorAll('mark.faq-search-highlight')
ItemMarks(w, i) == Marks(w.title[i]) \o Marks(w.answer[i])

\* mutant: an element matches only when one of its text nodes holds the query
isMatchPerNode(el, q) ==
    \E k \in 1..Len(TextNodes(el)) : Includes(normalizeText(TextNodes(el)[k]), q)

isMatch(el, q) == Includes(normalizeText(textContent(el)), q)

itemMatchesQuery(w, i, q) == isMatch(w.title[i], q) \/ isMatch(w.answer[i], q)

isFaqItemOpen(w, i) == w.open[i]

\* mutant: the listener removes the attribute
clickTagClears(w, i) == [w EXCEPT !.attr[i] = FALSE]

\* the listener ensureClickTagging put on the question wrapper
clickTag(w, i) == [w EXCEPT !.attr[i] = TRUE]

\* a click on the question wrapper: the page's accordion interaction toggles
\* the item, then the tagging listener runs
Toggle(w, i, who) ==
    clickTag([w EXCEPT !.open[i] = ~@,
                       !.openedBy[i] = IF w.open[i] THEN "none" ELSE who], i)

\* els.questionWrapper.click() from the search controller
Click(w, i) == [Toggle(w, i, "search") EXCEPT !.clicks[i] = @ + 1]

openFaqItem(w, i) ==
    IF w.attr[i] THEN w
    ELSE LET c == Click(w, i)
         IN  [c EXCEPT !.attr[i] = TRUE, !.set = @ \cup {i}]

\* mutant: the wrapper is clicked without asking whether the item is open
closeOpenedBlind(w, i) ==
    [Click(w, i) EXCEPT !.attr[i] = FALSE, !.set = @ \ {i}]

\* one round of the closing forEach: the item leaves the search-opened set
closeOpened(w, i) ==
    LET c == IF isFaqItemOpen(w, i) THEN Click(w, i) ELSE w
    IN  [c EXCEPT !.attr[i] = FALSE, !.set = @ \ {i}]

\* items.forEach(({ item }) => clearHighlights(item))
clearAll(w) ==
    [w EXCEPT !.title = [i \in Items |-> clearHighlights(w.title[i])],
              !.answer = [i \in Items |-> clearHighlights(w.answer[i])]]

\* the empty-query branch of onSearch, items i..Len
RECURSIVE closeAllFrom(_, _)
closeAllFrom(w, i) ==
    IF i > Len(faqPage) THEN w
    ELSE closeAllFrom(IF i \in w.set THEN closeOpened(w, i) ELSE w, i + 1)

\* the non-empty branch's closing forEach, items i..Len
RECURSIVE closeStaleFrom(_, _, _)
closeStaleFrom(w, q, i) ==
    IF i > Len(faqPage) THEN w
    ELSE closeStaleFrom(
            IF i \in w.set /\ ~itemMatchesQuery(w, i, q) THEN closeOpened(w, i) ELSE w,
            q, i + 1)

\* the matching forEach of findFirstMatchAndAct, items i..Len
RECURSIVE matchFrom(_, _, _)
matchFrom(w, q, i) ==
    IF i > Len(faqPage) THEN w
    ELSE IF isMatch(w.title[i], q) \/ isMatch(w.answer[i], q)
         THEN LET h == [w EXCEPT !.title[i] = highlightMatchesInElement(w.title[i], q),
                                 !.answer[i] = highlightMatchesInElement(w.answer[i], q),
                                 !.hlCalls = @ \cup {q},
                                 !.scans = @ \cup Scans(w.title[i], q)
                                             \cup Scans(w.answer[i], q)]
                  f == IF h.first = 0
                       THEN [h EXCEPT !.first = i,
                                      !.anchorMark = ItemMarks(h, i) # <<>>]
                       ELSE h
              IN  matchFrom(f, q, i + 1)
         ELSE matchFrom(w, q, i + 1)

findFirstMatchAndAct(w, query) ==
    LET q == normalizeText(query)
    IN  IF q = <<>> THEN w
        ELSE LET m == matchFrom(clearAll(w), q, 1)
             IN  IF m.first # 0 THEN openFaqItem(m, m.first) ELSE m

\* mutant: neither the blank-value branch nor the empty-query return
onSearchUnguarded(w, value) ==
    LET q == normalizeText(value)
        m == matchFrom(clearAll(closeStaleFrom(w, q, 1)), q, 1)
    IN  IF m.first # 0 THEN openFaqItem(m, m.first) ELSE m

onSearch(w, value) ==
    IF TrimOnly(value) = <<>> THEN closeAllFrom(clearAll(w), 1)
    ELSE findFirstMatchAndAct(closeStaleFrom(w, normalizeText(value), 1), value)

\* mutant: the pending timer is left running
clearTimeoutNot(ts, id) == ts

\* window.clearTimeout(id) on the timers of one input
clearTimeout(ts, id) == {t \in ts : t.id # id}

\* an id no pending timer of the input carries and the closure does not hold
FreshId(ts, held) ==
    Min({k \in 1..(Cardinality(ts) + 2) : k # held /\ \A t \in ts : t.id # k})

\* the function debounce returns: the pending timer is cancelled, a new one set
debounced(ts, held) ==
    LET kept == IF held # 0 THEN clearTimeout(ts, held) ELSE ts
    IN  kept \cup {[id |-> FreshId(ts, held), left |-> Delay]}

\* the user clicks the question header of item i
UserClick(i) ==
    /\ i \in Items
    /\ LET w == Toggle(World, i, "user")
       IN  /\ faqOpen' = w.open
           /\ openedAttr' = w.attr
           /\ openedBy' = w.openedBy
    /\ userClicked' = userClicked \cup {i}
    /\ clickedOutside' = IF i \in searchOpenedItems THEN clickedOutside
                         ELSE clickedOutside \cup {i}
    /\ last' = [NoRun EXCEPT !.kind = "click", !.item = i]
    /\ UNCHANGED <<faqPage, faqTitle, faqAnswer, searchOpenedItems, inputValue, timeoutId,
                   timers, burst, idle, hlVars, calcVars, asmtVars>>

\* 'input' on a search input: the value changes, onSearchDebounced runs
InputEvent(inp, v) ==
    /\ inputValue' = [inputValue EXCEPT ![inp] = v]
    /\ timers' = [timers EXCEPT ![inp] = debounced(timers[inp], timeoutId[inp])]
    /\ timeoutId' = [timeoutId EXCEPT ![inp] = FreshId(timers[inp], timeoutId[inp])]
    /\ burst' = [burst EXCEPT ![inp] = IF @ < MaxBurst THEN @ + 1 ELSE @]
    /\ idle' = [idle EXCEPT ![inp] = 0]
    /\ last' = NoRun
    /\ UNCHANGED <<faqPage, faqTitle, faqAnswer, faqOpen, openedAttr, searchOpenedItems,
                   userClicked, clickedOutside, openedBy, hlVars, calcVars, asmtVars>>

\* time passes while a timer is pending and none is due
Tick ==
    /\ \E inp \in SearchInputs : timers[inp] # {}
    /\ \A inp \in SearchInputs : \A t \in timers[inp] : t.left > 0
    /\ timers' = [inp \in SearchInputs |->
                    {[t EXCEPT !.left = @ - TickMs] : t \in timers[inp]}]
    /\ idle' = [inp \in SearchInputs |-> IF burst[inp] > 0 THEN idle[inp] + TickMs ELSE 0]
    /\ last' = NoRun
    /\ UNCHANGED <<faqPage, faqTitle, faqAnswer, faqOpen, openedAttr, searchOpenedItems,
                   inputValue, timeoutId, burst, userClicked, clickedOutside, openedBy,
                   hlVars, calcVars, asmtVars>>

\* a due timer fires: onSearch runs on the input's value of that moment
TimerFire(inp) ==
    \E t \in timers[inp] :
        /\ t.left <= 0
        /\ timers' = [timers EXCEPT ![inp] = @ \ {t}]
        /\ \E w \in {onSearch(World, inputValue[inp])} :
               /\ faqTitle' = w.title
               /\ faqAnswer' = w.answer
               /\ faqOpen' = w.open
               /\ openedAttr' = w.attr
               /\ searchOpenedItems' = w.set
               /\ openedBy' = w.openedBy
               /\ last' = [kind |-> IF TrimOnly(inputValue[inp]) = <<>> THEN "empty"
                                    ELSE "query",
                           item |-> 0, input |-> inp, value |-> inputValue[inp],
                           idle |-> idle[inp], burst |-> burst[inp], first |-> w.first,
                           anchorMark |-> w.anchorMark, clicks |-> w.clicks,
                           prevOpen |-> faqOpen, prevAttr |-> openedAttr,
                           prevBy |-> openedBy, prevSet |-> searchOpenedItems,
                           prevOutside |-> clickedOutside,
                           hlCalls |-> w.hlCalls, scans |-> w.scans,
                           prevMarked |-> \E i \in Items : ItemMarks(World, i) # <<>>]
        /\ burst' = [burst EXCEPT ![inp] = 0]
        /\ idle' = [idle EXCEPT ![inp] = 0]
        /\ UNCHANGED <<faqPage, inputValue, timeoutId, userClicked, clickedOutside,
                       hlVars, calcVars, asmtVars>>

Next ==
    \/ \E i \in Items : UserClick(i)
    \/ \E inp \in SearchInputs : \E v \in InputValues[inp] : InputEvent(inp, v)
    \/ Tick
    \/ \E inp \in SearchInputs : TimerFire(inp)

Spec == Init /\ [][Next]_vars

\* TimerFire(inp) is enabled exactly when a timer of the input is due, and
\* every TimerFire step changes timers
TimerDue(inp) == \E t \in timers[inp] : t.left <= 0

\* the event loop lets time pass and runs every due timer: weak fairness of
\* Tick and of each TimerFire(inp), the latter written out with TimerDue(inp)
\* for ENABLED <<TimerFire(inp)>>_vars
SpecLive ==
    /\ InitTwoInputs
    /\ [][Next]_vars
    /\ WF_vars(Tick)
    /\ \A inp \in {1, 2} : []<>(~TimerDue(inp)) \/ []<><<TimerFire(inp)>>_vars

(***************************************************************************)
(* Highlight engine on one container: inputs drawn from bounded sets.      *)
(***************************************************************************)
\* containers as the HTML parser builds them: one text node, or a text node
\* followed by an inline element with one text node; no empty text node
Containers ==
    {<<TextNode(t)>> : t \in Strings(MaxTextLen) \ {<<>>}}
    \cup {<<TextNode(t), ElemNode(<<TextNode(u)>>)>> :
            t \in Strings(MaxTextLen - 1) \ {<<>>},
            u \in Strings(MaxTextLen - 1) \ {<<>>}}

Queries == Strings(MaxQueryLen)

InitHL ==
    /\ CalcIdle
    /\ FaqIdle
    /\ AsmtIdle
    /\ hlContainer \in {c \in Containers : Len(textContent(c)) <= MaxTextLen}
    /\ hlOriginal = hlContainer
    /\ hlQuery = <<>>
    /\ hlPhase = "fresh"
    /\ hlCycles = 0

\* highlightMatchesInElement as findFirstMatchAndAct calls it: the highlights
\* of the scope are cleared first and the query is normalized and non-empty
HLApply(query) ==
    /\ hlPhase # "marked"
    /\ hlCycles < MaxCycles
    /\ normalizeText(query) # <<>>
    /\ hlContainer' = highlightMatchesInElement(hlContainer, normalizeText(query))
    /\ hlQuery' = normalizeText(query)
    /\ hlPhase' = "marked"
    /\ hlCycles' = hlCycles + 1
    /\ UNCHANGED <<hlOriginal, calcVars, faqVars, asmtVars>>

HLClear ==
    /\ hlContainer' = clearHighlights(hlContainer)
    /\ hlPhase' = IF hlPhase = "fresh" THEN "fresh" ELSE "cleared"
    /\ UNCHANGED <<hlOriginal, hlQuery, hlCycles, calcVars, faqVars, asmtVars>>

NextHL ==
    \/ \E query \in Queries : HLApply(query)
    \/ HLClear

SpecHL == InitHL /\ [][NextHL]_vars

(***************************************************************************)
(* Assessment: five yes/no steps and the recommendation panel.             *)
(***************************************************************************)
setAssessmentAnswer(answers, index, value) ==
    IF index \in Questions THEN [answers EXCEPT ![index] = value] ELSE answers

yesCount(answers) == Cardinality({k \in Questions : answers[k] = "yes"})

completed(answers) == \A k \in Questions : answers[k] # "null"

\* the tier's threshold one too low
recommendationFromThree(count) ==
    IF count >= 3 THEN "fusionauth" ELSE IF count >= 2 THEN "saas" ELSE "build"

recommendation(count) ==
    IF count >= 4 THEN "fusionauth" ELSE IF count >= 2 THEN "saas" ELSE "build"

computeAssessment(answers) ==
    [yesCount |-> yesCount(answers),
     completed |-> completed(answers),
     recommendation |-> recommendation(yesCount(answers))]

getAssessmentMessage(rec) ==
    IF rec = "fusionauth"
    THEN "FusionAuth - You need fast deployment with enterprise features. FusionAuth provides production-ready auth with compliance built-in."
    ELSE IF rec = "saas"
    THEN "Traditional SaaS - A managed solution could work, but evaluate customization limitations and long-term costs carefully."
    ELSE "Consider Building - You may have the resources and unique requirements that justify building, but review the full analysis below."

\* the panel after updateAssessmentUI: [display, text]
updateAssessmentUI(answers, text) ==
    IF ~computeAssessment(answers).completed
    THEN [display |-> "none", text |-> text]
    ELSE [display |-> "",
          text |-> getAssessmentMessage(computeAssessment(answers).recommendation)]

\* initializeAssessment on a page with the five steps and one panel whose
\* text element is empty in the markup
InitAsmt ==
    /\ assessmentAnswers = [k \in Questions |-> "null"]
    /\ dataSelected = [k \in Questions |-> "none"]
    /\ infoDisplay = updateAssessmentUI(assessmentAnswers, "").display
    /\ infoText = updateAssessmentUI(assessmentAnswers, "").text
    /\ HLIdle
    /\ CalcIdle
    /\ FaqIdle

\* click listener of a step's yes or no button
StepClick(stepIndex, value) ==
    /\ assessmentAnswers' = setAssessmentAnswer(assessmentAnswers, stepIndex, value)
    /\ dataSelected' = [dataSelected EXCEPT ![stepIndex] = value]
    /\ infoDisplay' = updateAssessmentUI(assessmentAnswers', infoText).display
    /\ infoText' = updateAssessmentUI(assessmentAnswers', infoText).text
    /\ UNCHANGED <<hlVars, calcVars, faqVars>>

NextAsmt == \E stepIndex \in Questions : \E value \in {"yes", "no"} : StepClick(stepIndex, value)

SpecAsmt == InitAsmt /\ [][NextAsmt]_vars

RECURSIVE Occurrences(_, _, _)
Occurrences(s, q, pos) ==
    LET idx == IndexOf(s, q, pos)
    IN  IF idx = -1 THEN 0 ELSE 1 + Occurrences(s, q, idx + Len(q))

RECURSIVE SumOccurrences(_, _)
SumOccurrences(texts, q) ==
    IF texts = <<>> THEN 0
    ELSE Occurrences(ToLower(Head(texts)), q, 0) + SumOccurrences(Tail(texts), q)

\* C7: after a highlight every marker's text equals the query ignoring case,
\* there is one marker per non-overlapping occurrence of the query in a text
\* node, and the text content is unchanged, also when a text node starts or
\* ends with whitespace.
C7_MarkersAreOccurrences ==
    hlPhase = "marked" =>
        /\ \A k \in 1..Len(Marks(hlContainer)) :
              ToLower(Marks(hlContainer)[k].text) = hlQuery
        /\ Len(Marks(hlContainer)) = SumOccurrences(TextNodes(hlOriginal), hlQuery)
        /\ textContent(hlContainer) = textContent(hlOriginal)

(***************************************************************************)
(* Properties of the FAQ search (checked under Spec and SpecLive).         *)
(***************************************************************************)
Searched == last.kind \in {"empty", "query"}

\* C1, as claimed: right after the user clicks an item's header the item's
\* data-opened-by-search marker is cleared, and no search execution closes an
\* item that a user's click had opened.
C1_ClickClearsMarker ==
    /\ last.kind = "click" => ~openedAttr[last.item]
    /\ Searched =>
          \A i \in Items :
              last.prevOpen[i] /\ last.prevBy[i] = "user" => last.clicks[i] = 0

\* C2, as claimed: searchOpenedItems never holds an item that is open because
\* the user clicked it.
C2_SetOnlySearchOpened == \A i \in searchOpenedItems : openedBy[i] # "user"

\* the text of the element, lowercased and trimmed, holds q
HoldsQuery(el, q) == Includes(Trim(ToLower(textContent(el))), q)

\* one text node of the element, lowercased and trimmed, holds q
NodeHoldsQuery(el, q) ==
    \E k \in 1..Len(TextNodes(el)) : Includes(Trim(ToLower(TextNodes(el)[k])), q)

\* the items whose title or answer text holds the query of the latest search
Matching ==
    {i \in Items : \/ HoldsQuery(faqPage[i].title, Trim(ToLower(last.value)))
                   \/ HoldsQuery(faqPage[i].answer, Trim(ToLower(last.value)))}

\* C3, as claimed: after a search with a non-empty query and a match, the
\* first matching item in document order is open; it got one click and is in
\* searchOpenedItems if it was closed, and no click if it was open; no other
\* item was opened.
C3_FirstMatchOpened ==
    last.kind = "query" /\ Matching # {} =>
        LET f == Min(Matching)
        IN  /\ last.first = f
            /\ faqOpen[f]
            /\ ~last.prevOpen[f] => last.clicks[f] = 1 /\ f \in searchOpenedItems
            /\ last.prevOpen[f] => last.clicks[f] = 0
            /\ \A j \in Items \ {f} : ~(faqOpen[j] /\ ~last.prevOpen[j])

\* C4: after a search execution on an empty or whitespace-only value no
\* highlight marker remains, every item that was in searchOpenedItems and open
\* got exactly one click and every other item none, searchOpenedItems is
\* empty, and every item's text content is what the page was loaded with.
C4_EmptyQueryClears ==
    last.kind = "empty" =>
        /\ \A i \in Items : ItemMarks(World, i) = <<>>
        /\ \A i \in Items :
              last.clicks[i] = IF i \in last.prevSet /\ last.prevOpen[i] THEN 1 ELSE 0
        /\ searchOpenedItems = {}
        /\ \A i \in Items :
              /\ textContent(faqTitle[i]) = textContent(faqPage[i].title)
              /\ textContent(faqAnswer[i]) = textContent(faqPage[i].answer)

\* an empty search that found highlights, closed a search-opened item, left a
\* closed search-opened item alone and left a user-opened item alone
C4_Witness ==
    /\ last.kind = "empty"
    /\ last.prevMarked
    /\ \E i \in last.prevSet : last.prevOpen[i] /\ last.clicks[i] = 1 /\ ~faqOpen[i]
    /\ \E j \in Items : j \notin last.prevSet /\ last.prevOpen[j] /\ faqOpen[j]

\* the debounce state of one input: a timer is pending exactly while an input
\* event awaits its search, it is the closure's timer and it runs Delay after
\* the latest event
DebounceInv(inp) ==
    /\ Cardinality(timers[inp]) = IF burst[inp] > 0 THEN 1 ELSE 0
    /\ \A t \in timers[inp] : t.id = timeoutId[inp] /\ t.left = Delay - idle[inp]

\* C5: per input at most one timer is pending; a burst of input events ends in
\* exactly one search execution, which runs no sooner than Delay after the
\* burst's last event, reads the input's value of that moment, and is never
\* dropped: a pending timer is cancelled by a newer event or fires.
C5_Debounce ==
    /\ [](\A inp \in SearchInputs : DebounceInv(inp))
    /\ [](Searched => /\ last.value = inputValue[last.input]
                      /\ last.idle >= Delay
                      /\ last.burst >= 1
                      /\ burst[last.input] = 0)
    /\ \A inp \in {1, 2} : \A k \in 1..2 :
          (\E t \in timers[inp] : t.id = k) ~> ~(\E t \in timers[inp] : t.id = k)

\* the one search of a burst of two or more events on input 1, while input 2
\* still waits for its own timer
C5_Witness ==
    /\ Searched
    /\ last.input = 1
    /\ last.burst >= 2
    /\ last.value = Str1("a")
    /\ timers[1] = {}
    /\ timers[2] # {}

\* item i holds the query of the latest search only across an element boundary
CrossOnly(i) ==
    LET q == Trim(ToLower(last.value))
    IN  /\ i \in Matching
        /\ ~NodeHoldsQuery(faqPage[i].title, q)
        /\ ~NodeHoldsQuery(faqPage[i].answer, q)

\* C8, as claimed: an item that holds the query only across an element
\* boundary gets no marker, is not the first match, is not clicked and is not
\* added to searchOpenedItems.
C8_CrossBoundaryNoMatch ==
    last.kind = "query" =>
        \A i \in Items :
            CrossOnly(i) =>
                /\ ItemMarks(World, i) = <<>>
                /\ last.first # i
                /\ last.clicks[i] = 0
                /\ i \in searchOpenedItems => i \in last.prevSet

\* C8, amended: an item that holds the query only across an element boundary
\* gets no marker, yet it is a match: the first match is that item or an
\* earlier one, and when it is the first match the scroll anchor is the item
\* itself and openFaqItem runs on it: unless it carried the marker attribute it
\* gets one click and is added to searchOpenedItems.
C8_CrossBoundaryStillMatch ==
    last.kind = "query" =>
        \A i \in Items :
            CrossOnly(i) =>
                /\ ItemMarks(World, i) = <<>>
                /\ last.first = Min(Matching)
                /\ last.first # 0 /\ last.first <= i
                /\ last.first = i =>
                      /\ ~last.anchorMark
                      /\ openedAttr[i]
                      /\ IF last.prevAttr[i] THEN last.clicks[i] = 0
                         ELSE last.clicks[i] = 1 /\ i \in searchOpenedItems

C8_Witness ==
    /\ last.kind = "query"
    /\ \E i \in Items :
          /\ CrossOnly(i)
          /\ last.first = i
          /\ last.clicks[i] = 1
          /\ faqOpen[i]
          /\ i \in searchOpenedItems

C14_ScanLoopAdvances ==
    Searched =>
        /\ \A q \in last.hlCalls : Trim(ToLower(q)) # <<>>
        /\ \A s \in last.scans :
               /\ s.q # <<>>
               /\ \A pos \in 0..Len(s.lower) :
                      IndexOf(s.lower, s.q, pos) # -1 =>
                          /\ IndexOf(s.lower, s.q, pos) + Len(s.q) > pos
                          /\ IndexOf(s.lower, s.q, pos) + Len(s.q) <= Len(s.lower)
        /\ Trim(last.value) = <<>> => last.hlCalls = {} /\ last.scans = {}

\* a search whose scan loop found two occurrences in one text node: the scan
\* went on from behind the first and found the second
C14_Witness ==
    /\ Searched
    /\ last.kind = "query"
    /\ \E s \in last.scans :
           /\ IndexOf(s.lower, s.q, 0) # -1
           /\ IndexOf(s.lower, s.q, IndexOf(s.lower, s.q, 0) + Len(s.q)) # -1

(***************************************************************************)
(* Properties of readState (checked under SpecCalc).                       *)
(***************************************************************************)
StateField == [engineers |-> "engineers", salary |-> "salary", volume |-> "users",
               timeline |-> "timeline"]

Defaults == [engineers |-> 3, salary |-> 150000, volume |-> 10000, timeline |-> 3]

\* the text is an optionally signed decimal numeral, surrounding blanks aside
IsNumeral(s) ==
    LET t == Trim(s)
        body == IF t # <<>> /\ t[1] = "-" THEN Tail(t) ELSE t
    IN  body # <<>> /\ \A i \in 1..Len(body) : IsDigit(body[i])

\* empty, non-numeric (which covers what Number makes non-finite), or a
\* numeral below zero, which no range of a count, a salary or a duration holds
InvalidValue(s) ==
    \/ Trim(s) = <<>>
    \/ ~IsNumeral(s)
    \/ Trim(s)[1] = "-"

\* C12, as claimed: for each of engineers, salary, volume and timeline the
\* state that reaches calculateCosts holds the fixed default (3, 150000,
\* 10000, 3) whenever the input element is missing or its value is
\* non-numeric, empty, non-finite or out of range; a missing auth checkbox
\* yields hasExistingAuth = false.
C12_DefaultsOnInvalid ==
    /\ \A name \in NumericInputs :
           (name \notin calcPresent \/ InvalidValue(calcRaw[name]))
               => calcState[StateField[name]] = Defaults[name]
    /\ "auth" \notin calcPresent => ~calcState.hasExistingAuth

(***************************************************************************)
(* Properties of the assessment (checked under SpecAsmt).                  *)
(***************************************************************************)
YesAnswers == Cardinality({k \in Questions : assessmentAnswers[k] = "yes"})

AllAnswered == \A k \in Questions : assessmentAnswers[k] \in {"yes", "no"}

\* C11: the recommendation panel is hidden while any of the five questions is
\* unanswered and shown once all five are answered; when shown its message is
\* the fusionauth tier for at least 4 'yes' answers, the saas tier for 2 or 3
\* and the build tier for 0 or 1.
C11_Recommendation ==
    /\ ~AllAnswered => infoDisplay = "none"
    /\ AllAnswered =>
        /\ infoDisplay = ""
        /\ YesAnswers >= 4 => infoText = getAssessmentMessage("fusionauth")
        /\ YesAnswers \in {2, 3} => infoText = getAssessmentMessage("saas")
        /\ YesAnswers \in {0, 1} => infoText = getAssessmentMessage("build")

\* all five answered, three of them 'yes': the panel shows the saas tier
C11_Witness ==
    /\ AllAnswered
    /\ YesAnswers = 3
    /\ infoDisplay = ""
    /\ infoText = getAssessmentMessage("saas")

====
